---- MODULE Spec2Model ----
(***************************************************************************)
(* Model of src/vs/editor/common/view/minimapCharRenderer.ts:              *)
(*   - MinimapTokensColorTracker: the palette derived from the upstream    *)
(*     TokenizationRegistry color map, its lightness flag, its event;      *)
(*   - MinimapCharRenderer: the two softened atlases and the two render    *)
(*     paths writing into a caller-owned ImageData.                        *)
(* JavaScript values that have no TLA+ counterpart are encoded:            *)
(*   undefined colour  -> Undefined (all channels -1)                      *)
(*   undefined / NaN sample -> NoSample (-1)                               *)
(*   null colour map   -> NoMap (present = FALSE)                          *)
(*   a 0-based array a -> a sequence s with a[i] = s[i + 1]                *)
(***************************************************************************)
EXTENDS Integers, Sequences, FiniteSets, TLC

VARIABLES
    colorMap,          \* TokenizationRegistry.getColorMap(): NoMap or [present, entries]
    INSTANCE_,         \* MinimapTokensColorTracker._INSTANCE is non-null
    colors,            \* MinimapTokensColorTracker._colors
    backgroundIsLight, \* MinimapTokensColorTracker._backgroundIsLight
    seen,              \* what a subscriber of onDidChange read at the last fire
    paletteFrom,       \* history: the map _colors was last assigned from
    flagFrom,          \* history: the map _backgroundIsLight was last assigned from
    lastOp,            \* the last tracker operation and its outcome
    queried,           \* the last getColor call: its argument and its result
    renderer,          \* the MinimapCharRenderer, once constructed
    target,            \* the ImageData of the last render call, after the call
    lastCall           \* the last render call: arguments, outcome, buffer before

trackerVars == <<colorMap, INSTANCE_, colors, backgroundIsLight, seen,
                 paletteFrom, flagFrom, lastOp, queried>>
rendererVars == <<renderer, target, lastCall>>
vars == <<colorMap, INSTANCE_, colors, backgroundIsLight, seen,
          paletteFrom, flagFrom, lastOp, queried, renderer, target, lastCall>>

(***************************************************************************)
(* Bounds                                                                  *)
(***************************************************************************)
MaxMapLen == 3
MaxScale == 2

(***************************************************************************)
(* Values                                                                  *)
(***************************************************************************)
Max(a, b) == IF a >= b THEN a ELSE b

\* x modulo m, in 0..m-1 for every integer x: the modulo the properties speak of
Mod(x, m) == x % m

\* JavaScript's remainder: the result takes the sign of the dividend
JsRem(x, m) == IF x >= 0 THEN x % m ELSE 0 - ((0 - x) % m)

\* round(n / d) for d > 0, halves going up (Math.round)
MathRound(n, d) == (2 * n + d) \div (2 * d)

\* round(n / d) for d > 0, halves going to the even neighbour, clamped to
\* 0..255: the conversion a Uint8ClampedArray applies on a store
ToUint8Clamp(n, d) ==
    LET q == n \div d
        r == n - q * d
        nearest == IF 2 * r < d THEN q
                   ELSE IF 2 * r > d THEN q + 1
                   ELSE IF q % 2 = 0 THEN q ELSE q + 1
    IN  IF nearest < 0 THEN 0 ELSE IF nearest > 255 THEN 255 ELSE nearest

RGBA8_clamp(c) == IF c < 0 THEN 0 ELSE IF c > 255 THEN 255 ELSE c

RGBA8(r, g, b, a) ==
    [r |-> RGBA8_clamp(r), g |-> RGBA8_clamp(g),
     b |-> RGBA8_clamp(b), a |-> RGBA8_clamp(a)]

Empty == RGBA8(0, 0, 0, 0)

Undefined == [r |-> -1, g |-> -1, b |-> -1, a |-> -1]

\* ColorId.DefaultBackground
DefaultBackground == 2

\* Upstream Color objects: 8-bit r, g, b, alpha in hundredths (a float in
\* [0,1]), and the value its getRelativeLuminance() returns, in thousandths.
Black == [rgba |-> [r |-> 0, g |-> 0, b |-> 0, a |-> 50], lum |-> 0]
White == [rgba |-> [r |-> 255, g |-> 255, b |-> 255, a |-> 100], lum |-> 1000]
Olive == [rgba |-> [r |-> 183, g |-> 197, b |-> 0, a |-> 100], lum |-> 500]
SrcColors == {Black, White, Olive}

getRelativeLuminance(c) == c.lum

NoMap == [present |-> FALSE, entries |-> <<>>]

\* the entry sequences of at most n slots; slot 0 is never read by the
\* tracker and always holds the same entry
RECURSIVE SeqsUpTo(_)
SeqsUpTo(n) ==
    IF n = 0 THEN {<<>>}
    ELSE LET shorter == SeqsUpTo(n - 1)
         IN  shorter \cup {Append(s, c) : s \in {t \in shorter : Len(t) = n - 1},
                                          c \in IF n = 1 THEN {Black} ELSE SrcColors}

ColorMaps == {NoMap} \cup {[present |-> TRUE, entries |-> s] : s \in SeqsUpTo(MaxMapLen)}

ColorIds == (0 - 1) .. (MaxMapLen + 1)

(***************************************************************************)
(* MinimapTokensColorTracker                                               *)
(***************************************************************************)
\* lines 41-46: slot 0 is RGBA8.Empty, slots 1..length-1 are converted
ConvertPalette(entries) ==
    [i \in 1 .. Max(1, Len(entries)) |->
        IF i = 1 THEN Empty
        ELSE LET source == entries[i].rgba
             IN  RGBA8(source.r, source.g, source.b, MathRound(source.a * 255, 100))]

\* this._onDidChange.fire(undefined): a subscriber runs and reads the tracker
Fire(t) ==
    [t EXCEPT !.fired = @ + 1,
              !.seen = [colors |-> t.colors, light |-> t.backgroundIsLight]]

\* _updateColorMap with the event fired before the flag is assigned
updateColorMap_fireBeforeFlag(t, cm) ==
    IF ~cm.present
    THEN [t EXCEPT !.colors = <<Empty>>, !.backgroundIsLight = TRUE,
                   !.paletteFrom = cm, !.flagFrom = cm, !.rebuilt = TRUE]
    ELSE LET t1 == [t EXCEPT !.colors = ConvertPalette(cm.entries),
                             !.paletteFrom = cm, !.rebuilt = TRUE]
         IN  IF DefaultBackground + 1 > Len(cm.entries)
             THEN [t1 EXCEPT !.threw = TRUE]
             ELSE LET backgroundLuminosity ==
                          getRelativeLuminance(cm.entries[DefaultBackground + 1])
                      t2 == Fire(t1)
                  IN  [t2 EXCEPT !.backgroundIsLight = backgroundLuminosity >= 500,
                                 !.flagFrom = cm]

\* _updateColorMap on the tracker fields t, with getColorMap() returning cm
updateColorMap(t, cm) ==
    IF ~cm.present
    THEN [t EXCEPT !.colors = <<Empty>>, !.backgroundIsLight = TRUE,
                   !.paletteFrom = cm, !.flagFrom = cm, !.rebuilt = TRUE]
    ELSE LET t1 == [t EXCEPT !.colors = ConvertPalette(cm.entries),
                             !.paletteFrom = cm, !.rebuilt = TRUE]
         IN  IF DefaultBackground + 1 > Len(cm.entries)
             THEN \* colorMap[ColorId.DefaultBackground] is undefined: TypeError
                  [t1 EXCEPT !.threw = TRUE]
             ELSE LET backgroundLuminosity ==
                          getRelativeLuminance(cm.entries[DefaultBackground + 1])
                      t2 == [t1 EXCEPT !.backgroundIsLight = backgroundLuminosity >= 500,
                                       !.flagFrom = cm]
                  IN  Fire(t2)

\* the listener without the test of e.changedColorMap
onRegistryChange_anyChange(t, e, cm) == updateColorMap(t, cm)

\* the listener registered in the constructor (lines 27-31)
onRegistryChange(t, e, cm) ==
    IF e.changedColorMap THEN updateColorMap(t, cm) ELSE t

\* getColor on a palette
getColorOf(palette, colorId) ==
    LET id == IF colorId < 1 \/ colorId >= Len(palette) THEN DefaultBackground ELSE colorId
    IN  IF id + 1 \in 1 .. Len(palette) THEN palette[id + 1] ELSE Undefined

getColor(colorId) == getColorOf(colors, colorId)

\* the tracker fields as a record, at the start of an operation
Fields ==
    [colors |-> colors, backgroundIsLight |-> backgroundIsLight, seen |-> seen,
     paletteFrom |-> paletteFrom, flagFrom |-> flagFrom,
     fired |-> 0, threw |-> FALSE, rebuilt |-> FALSE]

Store(t, kind) ==
    /\ colors' = t.colors
    /\ backgroundIsLight' = t.backgroundIsLight
    /\ seen' = t.seen
    /\ paletteFrom' = t.paletteFrom
    /\ flagFrom' = t.flagFrom
    /\ lastOp' = [kind |-> kind, fired |-> t.fired, threw |-> t.threw, rebuilt |-> t.rebuilt]

NoQuery == [id |-> 0, result |-> Undefined, asked |-> FALSE]
NoOp == [kind |-> "none", fired |-> 0, threw |-> FALSE, rebuilt |-> FALSE]

\* getInstance() with no instance yet: the constructor runs; when
\* _updateColorMap throws, no instance is stored and nothing is subscribed
GetInstance ==
    /\ ~INSTANCE_
    /\ ~queried.asked
    /\ LET t == updateColorMap(Fields, colorMap)
       IN  /\ INSTANCE_' = ~t.threw
           /\ Store(t, "construct")
    /\ queried' = NoQuery
    /\ UNCHANGED <<colorMap, rendererVars>>

\* TokenizationRegistry replaces its map with m and notifies with
\* changedColorMap = TRUE
NotifyColorMapChanged(m) ==
    /\ ~queried.asked
    /\ colorMap' = m
    /\ IF INSTANCE_
       THEN Store(onRegistryChange(Fields, [changedColorMap |-> TRUE], m), "changed")
       ELSE UNCHANGED <<colors, backgroundIsLight, seen, paletteFrom, flagFrom, lastOp>>
    /\ UNCHANGED <<INSTANCE_, queried, rendererVars>>

\* TokenizationRegistry notifies with changedColorMap = FALSE; its map is m
NotifyOtherChange(m) ==
    /\ ~queried.asked
    /\ colorMap' = m
    /\ IF INSTANCE_
       THEN Store(onRegistryChange(Fields, [changedColorMap |-> FALSE], m), "other")
       ELSE UNCHANGED <<colors, backgroundIsLight, seen, paletteFrom, flagFrom, lastOp>>
    /\ UNCHANGED <<INSTANCE_, queried, rendererVars>>

\* a reader calls getColor(c) on the instance
QueryColor(c) ==
    /\ INSTANCE_
    /\ ~queried.asked
    /\ queried' = [id |-> c, result |-> getColor(c), asked |-> TRUE]
    /\ UNCHANGED <<colorMap, INSTANCE_, colors, backgroundIsLight, seen,
                   paletteFrom, flagFrom, lastOp, rendererVars>>

\* the reader takes the result of its getColor call; the call is synchronous,
\* so no notification is delivered between the call and its return
ReturnColor ==
    /\ queried.asked
    /\ queried' = NoQuery
    /\ UNCHANGED <<colorMap, INSTANCE_, colors, backgroundIsLight, seen,
                   paletteFrom, flagFrom, lastOp, rendererVars>>

(***************************************************************************)
(* Properties of the color tracker                                         *)
(***************************************************************************)
\* p is the palette the conversion of the map entries m must give: as long
\* as m (at least one slot), slot 0 the sentinel, every other slot the
\* entry's r, g, b and the integer nearest to 255 times its alpha
IsPaletteOf(p, m) ==
    /\ Len(p) = Max(1, Len(m))
    /\ p[1] = Empty
    /\ \A i \in 2 .. Len(m) :
          /\ p[i].r = m[i].rgba.r
          /\ p[i].g = m[i].rgba.g
          /\ p[i].b = m[i].rgba.b
          /\ 100 * p[i].a - 255 * m[i].rgba.a \in (0 - 49) .. 50

IsLightOf(m) == m[DefaultBackground + 1].lum >= 500

\* C1: on an existing tracker getColor(c) returns a defined Color for every
\* integer c, and the sentinel for every c when the palette was built from
\* an absent map.
C1_GetColorAlwaysDefined ==
    INSTANCE_ =>
        /\ \A c \in ColorIds : getColor(c) # Undefined
        /\ (~paletteFrom.present => \A c \in ColorIds : getColor(c) = Empty)
        /\ (queried.asked => queried.result # Undefined)

\* C2 (as stated): every rebuild run by a color-map-changed notification
\* that completes fires the change event exactly once, and the subscriber
\* reads the palette and the flag of the new map.
C2_EveryCompletedRebuildFiresOnce ==
    (lastOp.kind = "changed" /\ ~lastOp.threw) =>
        /\ lastOp.fired = 1
        /\ seen.colors = colors
        /\ seen.light = backgroundIsLight

\* C2 (amended): a rebuild run by a color-map-changed notification that
\* finds the upstream map present and completes fires the change event
\* exactly once, after the palette and the flag are those of the new map; a
\* rebuild that finds the map absent completes without firing the event.
C2_PresentMapRebuildFiresOnce ==
    (lastOp.kind = "changed" /\ ~lastOp.threw) =>
        IF paletteFrom.present
        THEN /\ lastOp.fired = 1
             /\ IsPaletteOf(seen.colors, paletteFrom.entries)
             /\ seen.light = IsLightOf(paletteFrom.entries)
             /\ seen.colors = colors
             /\ seen.light = backgroundIsLight
        ELSE lastOp.fired = 0

\* a dark three-entry map has just been installed over a tracker and the
\* subscriber has been called once
C2_Witness ==
    /\ lastOp.kind = "changed"
    /\ lastOp.fired = 1
    /\ Len(seen.colors) = 3
    /\ ~seen.light

\* C3: wherever a reader can query the tracker, the palette and the flag
\* come from the same upstream map: the palette is that map's conversion
\* and the flag is (luminance of its default-background entry >= 0.5), also
\* when a rebuild did not complete.
C3_PaletteAndFlagFromSameMap ==
    INSTANCE_ =>
        /\ paletteFrom = flagFrom
        /\ paletteFrom.present =>
              /\ IsPaletteOf(colors, paletteFrom.entries)
              /\ Len(paletteFrom.entries) > DefaultBackground
              /\ backgroundIsLight = IsLightOf(paletteFrom.entries)

\* C4: a rebuild that finds the upstream map absent or empty does not fail
\* and leaves a one-entry palette holding the sentinel and the flag true.
C4_AbsentOrEmptyMapResets ==
    (lastOp.rebuilt /\ (~paletteFrom.present \/ Len(paletteFrom.entries) = 0)) =>
        /\ ~lastOp.threw
        /\ colors = <<Empty>>
        /\ backgroundIsLight = TRUE

\* C5: a notification with changedColorMap false rebuilds nothing: the
\* palette and the flag keep their values and no event is fired, whatever
\* the upstream map is; the palette and the flag change only in the
\* constructor and in a notification with changedColorMap true.
C5_OtherChangeRebuildsNothing ==
    [][ /\ lastOp'.kind = "other" =>
              /\ colors' = colors
              /\ backgroundIsLight' = backgroundIsLight
              /\ seen' = seen
              /\ lastOp'.fired = 0
              /\ ~lastOp'.rebuilt
        /\ (colors' # colors \/ backgroundIsLight' # backgroundIsLight \/ seen' # seen) =>
              lastOp'.kind \in {"construct", "changed"}
        /\ lastOp'.rebuilt => lastOp'.kind \in {"construct", "changed"}
      ]_vars

\* a notification with changedColorMap false arrived while the upstream map
\* differs from the one the palette was built from
C5_Witness ==
    /\ INSTANCE_
    /\ lastOp.kind = "other"
    /\ colorMap # paletteFrom
    /\ colorMap.present
    /\ Len(colorMap.entries) > DefaultBackground

NoRenderer == [made |-> FALSE, charDataNormal |-> <<>>, charDataLight |-> <<>>, scale |-> 0]
NoTarget == [width |-> 0, height |-> 0, data |-> <<>>]
NoCall ==
    [op |-> "none", dx |-> 0, dy |-> 0, chCode |-> 0, color |-> Undefined,
     backgroundColor |-> Undefined, useLighterFont |-> FALSE, warned |-> FALSE,
     charIndex |-> 0 - 1, before |-> NoTarget]

TrackerInit ==
    /\ colorMap \in ColorMaps
    /\ INSTANCE_ = FALSE
    /\ colors = <<>>
    /\ backgroundIsLight = FALSE
    /\ seen = [colors |-> <<>>, light |-> FALSE]
    /\ paletteFrom = NoMap
    /\ flagFrom = NoMap
    /\ lastOp = NoOp
    /\ queried = NoQuery
    /\ renderer = NoRenderer
    /\ target = NoTarget
    /\ lastCall = NoCall

TrackerNext ==
    \/ GetInstance
    \/ \E m \in ColorMaps : NotifyColorMapChanged(m)
    \/ \E m \in ColorMaps : NotifyOtherChange(m)
    \/ \E c \in ColorIds : QueryColor(c)
    \/ ReturnColor

TrackerSpec == TrackerInit /\ [][TrackerNext]_vars

(***************************************************************************)
(* Constants (enum Constants)                                              *)
(***************************************************************************)
START_CH_CODE == 32
END_CH_CODE == 126
CHAR_COUNT == END_CH_CODE - START_CH_CODE + 1
x1_CHAR_HEIGHT == 2
x1_CHAR_WIDTH == 1
RGBA_CHANNELS_CNT == 4

NoSample == 0 - 1

(***************************************************************************)
(* Inputs of the renderer                                                  *)
(***************************************************************************)
Scales == 1 .. MaxScale

\* the raw atlases handed to the constructor: none, a truncated one, and
\* one of the size the scale needs
ValidAtlas(scale) ==
    [i \in 1 .. CHAR_COUNT * (x1_CHAR_WIDTH * scale) * (x1_CHAR_HEIGHT * scale) |->
        ((i - 1) * 53) % 256]
Atlases(scale) == {<<>>, <<255, 3, 128>>, ValidAtlas(scale)}

\* the ImageData the caller hands to a render call
TargetWidth == MaxScale + 1
TargetHeight == 2 * MaxScale + 1
FreshTarget ==
    [width |-> TargetWidth, height |-> TargetHeight,
     data |-> [k \in 1 .. TargetWidth * TargetHeight * RGBA_CHANNELS_CNT |->
                  ((k - 1) * 7 + 3) % 256]]

DxValues == (0 - 1) .. TargetWidth
DyValues == {0 - 1, 0, 1, TargetHeight - 1}
ChCodes == {0 - 64, 0 - 63, 0, 31, 32, 126, 127, 222}
ColorPairs ==
    { <<RGBA8(255, 255, 255, 255), RGBA8(0, 0, 0, 255)>>,
      <<RGBA8(0, 0, 0, 255), RGBA8(255, 255, 255, 255)>>,
      <<RGBA8(10, 200, 77, 255), RGBA8(201, 3, 130, 255)>> }

(***************************************************************************)
(* MinimapCharRenderer                                                     *)
(***************************************************************************)
\* soften(input, num / den): every sample times the ratio, stored into a
\* Uint8ClampedArray
soften(input, num, den) ==
    [i \in 1 .. Len(input) |-> ToUint8Clamp(input[i] * num, den)]

\* _getChIndex without the wrap of a negative difference
getChIndex_noWrap(chCode) ==
    JsRem(chCode - START_CH_CODE, CHAR_COUNT)

\* _getChIndex
getChIndex(chCode) ==
    LET c0 == chCode - START_CH_CODE
        c1 == IF c0 < 0 THEN c0 + CHAR_COUNT ELSE c0
    IN  JsRem(c1, CHAR_COUNT)

\* the guard of both render paths, testing the width only
outsideImageData_widthOnly(tgt, dx, dy, charWidth, charHeight) ==
    dx + charWidth > tgt.width

\* the guard of both render paths (lines 122 and 168)
outsideImageData(tgt, dx, dy, charWidth, charHeight) ==
    dx + charWidth > tgt.width \/ dy + charHeight > tgt.height

\* charData[offset]: undefined outside the array
sampleAt(charData, offset) ==
    IF offset + 1 \in 1 .. Len(charData) THEN charData[offset + 1] ELSE NoSample

\* dest[column] = n / d on a Uint8ClampedArray: an index outside the array
\* is ignored
store(dest, column, n, d) ==
    IF column + 1 \in 1 .. Len(dest)
    THEN [dest EXCEPT ![column + 1] = ToUint8Clamp(n, d)]
    ELSE dest

\* dest[column] = background + delta * (sample / 255); an undefined sample
\* makes the value NaN, which is stored as 0
storeBlend(dest, column, background, delta, sample) ==
    IF sample = NoSample
    THEN store(dest, column, 0, 1)
    ELSE store(dest, column, 255 * background + delta * sample, 255)

\* the three stores of one pixel with a fourth store into the alpha byte
writePixel_withAlpha(dest, column, color, backgroundColor, sample) ==
    LET d1 == storeBlend(dest, column, backgroundColor.r, color.r - backgroundColor.r, sample)
        d2 == storeBlend(d1, column + 1, backgroundColor.g, color.g - backgroundColor.g, sample)
        d3 == storeBlend(d2, column + 2, backgroundColor.b, color.b - backgroundColor.b, sample)
    IN  store(d3, column + 3, 255, 1)

\* lines 147-151: the three stores of one pixel; the alpha byte is skipped
writePixel(dest, column, color, backgroundColor, sample) ==
    LET d1 == storeBlend(dest, column, backgroundColor.r, color.r - backgroundColor.r, sample)
        d2 == storeBlend(d1, column + 1, backgroundColor.g, color.g - backgroundColor.g, sample)
    IN  storeBlend(d2, column + 2, backgroundColor.b, color.b - backgroundColor.b, sample)

\* lines 144-155: the two loops of renderChar, pixel n = y * charWidth + x
RECURSIVE renderLoop(_, _, _, _, _, _, _, _, _)
renderLoop(dest, n, charWidth, charHeight, row0, destWidth, charData, sourceOffset0, cols) ==
    IF n >= charWidth * charHeight THEN dest
    ELSE LET y == n \div charWidth
             x == n % charWidth
             column == row0 + y * destWidth + x * RGBA_CHANNELS_CNT
             sample == sampleAt(charData, sourceOffset0 + n)
         IN  renderLoop(writePixel(dest, column, cols[1], cols[2], sample),
                        n + 1, charWidth, charHeight, row0, destWidth,
                        charData, sourceOffset0, cols)

\* lines 192-202: the two loops of blockRenderChar; c = 0.5 is the sample
\* 255 / 2, stored as colorR = background + delta / 2
RECURSIVE blockLoop(_, _, _, _, _, _, _)
blockLoop(dest, n, charWidth, charHeight, row0, destWidth, cols) ==
    IF n >= charWidth * charHeight THEN dest
    ELSE LET y == n \div charWidth
             x == n % charWidth
             column == row0 + y * destWidth + x * RGBA_CHANNELS_CNT
             color == cols[1]
             backgroundColor == cols[2]
             d1 == store(dest, column, 2 * backgroundColor.r + (color.r - backgroundColor.r), 2)
             d2 == store(d1, column + 1, 2 * backgroundColor.g + (color.g - backgroundColor.g), 2)
             d3 == store(d2, column + 2, 2 * backgroundColor.b + (color.b - backgroundColor.b), 2)
         IN  blockLoop(d3, n + 1, charWidth, charHeight, row0, destWidth, cols)

\* new MinimapCharRenderer(charData, scale)
NewRenderer(charData, scale) ==
    /\ lastCall.op = "none"
    /\ renderer' = [made |-> TRUE,
                    charDataNormal |-> soften(charData, 12, 15),
                    charDataLight |-> soften(charData, 50, 60),
                    scale |-> scale]
    /\ target' = NoTarget
    /\ lastCall' = NoCall
    /\ UNCHANGED trackerVars

\* renderChar(target, dx, dy, chCode, color, backgroundColor, useLighterFont)
RenderChar(tgt, dx, dy, chCode, cols, useLighterFont) ==
    /\ renderer.made
    /\ lastCall.op = "none"
    /\ LET charWidth == x1_CHAR_WIDTH * renderer.scale
           charHeight == x1_CHAR_HEIGHT * renderer.scale
           rejected == outsideImageData(tgt, dx, dy, charWidth, charHeight)
           charData == IF useLighterFont THEN renderer.charDataLight
                       ELSE renderer.charDataNormal
           charIndex == getChIndex(chCode)
           destWidth == tgt.width * RGBA_CHANNELS_CNT
           sourceOffset == charIndex * charWidth * charHeight
           row == dy * destWidth + dx * RGBA_CHANNELS_CNT
       IN  /\ target' = IF rejected THEN tgt
                        ELSE [tgt EXCEPT !.data =
                                 renderLoop(tgt.data, 0, charWidth, charHeight, row,
                                            destWidth, charData, sourceOffset, cols)]
           /\ lastCall' = [op |-> "renderChar", dx |-> dx, dy |-> dy, chCode |-> chCode,
                           color |-> cols[1], backgroundColor |-> cols[2],
                           useLighterFont |-> useLighterFont,
                           warned |-> rejected,
                           charIndex |-> IF rejected THEN NoSample ELSE charIndex,
                           before |-> tgt]
    /\ UNCHANGED <<renderer, trackerVars>>

\* blockRenderChar(target, dx, dy, color, backgroundColor, useLighterFont)
BlockRenderChar(tgt, dx, dy, cols, useLighterFont) ==
    /\ renderer.made
    /\ lastCall.op = "none"
    /\ LET charWidth == x1_CHAR_WIDTH * renderer.scale
           charHeight == x1_CHAR_HEIGHT * renderer.scale
           rejected == outsideImageData(tgt, dx, dy, charWidth, charHeight)
           destWidth == tgt.width * RGBA_CHANNELS_CNT
           row == dy * destWidth + dx * RGBA_CHANNELS_CNT
       IN  /\ target' = IF rejected THEN tgt
                        ELSE [tgt EXCEPT !.data =
                                 blockLoop(tgt.data, 0, charWidth, charHeight, row,
                                           destWidth, cols)]
           /\ lastCall' = [op |-> "blockRenderChar", dx |-> dx, dy |-> dy, chCode |-> 0,
                           color |-> cols[1], backgroundColor |-> cols[2],
                           useLighterFont |-> useLighterFont,
                           warned |-> rejected,
                           charIndex |-> NoSample,
                           before |-> tgt]
    /\ UNCHANGED <<renderer, trackerVars>>

\* the call returns and the caller takes its ImageData back: the renderer
\* keeps no reference to it, and calls are synchronous, so the next
\* operation starts after this one returned
ReleaseTarget ==
    /\ lastCall.op # "none"
    /\ target' = NoTarget
    /\ lastCall' = NoCall
    /\ UNCHANGED <<renderer, trackerVars>>

RendererInit ==
    /\ colorMap = NoMap
    /\ INSTANCE_ = FALSE
    /\ colors = <<>>
    /\ backgroundIsLight = FALSE
    /\ seen = [colors |-> <<>>, light |-> FALSE]
    /\ paletteFrom = NoMap
    /\ flagFrom = NoMap
    /\ lastOp = NoOp
    /\ queried = NoQuery
    /\ renderer = NoRenderer
    /\ target = NoTarget
    /\ lastCall = NoCall

RendererNext ==
    \/ \E scale \in Scales : \E charData \in Atlases(scale) : NewRenderer(charData, scale)
    \/ \E dx \in DxValues, dy \in DyValues, chCode \in ChCodes, cols \in ColorPairs,
          useLighterFont \in BOOLEAN :
          RenderChar(FreshTarget, dx, dy, chCode, cols, useLighterFont)
    \/ \E dx \in DxValues, dy \in DyValues, cols \in ColorPairs, useLighterFont \in BOOLEAN :
          BlockRenderChar(FreshTarget, dx, dy, cols, useLighterFont)
    \/ ReleaseTarget

RendererSpec == RendererInit /\ [][RendererNext]_vars

(***************************************************************************)
(* Properties of the character renderer                                    *)
(***************************************************************************)
CellWidth == x1_CHAR_WIDTH * renderer.scale
CellHeight == x1_CHAR_HEIGHT * renderer.scale

Called == lastCall.op \in {"renderChar", "blockRenderChar"}
Accepted == Called /\ ~lastCall.warned

\* the pixel (column px, row py) the 0-based byte index k belongs to
PixelX(k) == (k \div RGBA_CHANNELS_CNT) % target.width
PixelY(k) == (k \div RGBA_CHANNELS_CNT) \div target.width
IsAlpha(k) == k % RGBA_CHANNELS_CNT = 3
InCell(k) ==
    /\ PixelX(k) \in lastCall.dx .. (lastCall.dx + CellWidth - 1)
    /\ PixelY(k) \in lastCall.dy .. (lastCall.dy + CellHeight - 1)

\* C6: no renderer is ever produced from an empty or wrongly sized atlas:
\* every renderer holds two non-empty derived atlases of CHAR_COUNT cells.
C6_RendererHoldsUsableAtlases ==
    renderer.made =>
        /\ Len(renderer.charDataNormal) = CHAR_COUNT * CellWidth * CellHeight
        /\ Len(renderer.charDataLight) = CHAR_COUNT * CellWidth * CellHeight
        /\ Len(renderer.charDataNormal) > 0

\* C7: a render call whose dx + cell width exceeds the target width, or
\* whose dy + cell height exceeds the target height, returns with the
\* target buffer byte-for-byte unchanged.
C7_OutOfBoundsCallWritesNothing ==
    (Called /\ (\/ lastCall.dx + CellWidth > lastCall.before.width
                \/ lastCall.dy + CellHeight > lastCall.before.height)) =>
        /\ target = lastCall.before
        /\ lastCall.warned

\* a call one row too low for its cell, on a column that fits
C7_Witness ==
    /\ Called
    /\ lastCall.dx \in 0 .. (lastCall.before.width - CellWidth)
    /\ lastCall.dy >= 0
    /\ lastCall.dy < lastCall.before.height
    /\ lastCall.dy + CellHeight > lastCall.before.height
    /\ target = lastCall.before

\* C8 (as stated): for every integer character code the glyph index is
\* (code - 32) modulo 95, a value in 0..94.
C8_GlyphIndexForEveryInteger ==
    (lastCall.op = "renderChar" /\ ~lastCall.warned) =>
        /\ lastCall.charIndex \in 0 .. (CHAR_COUNT - 1)
        /\ lastCall.charIndex = Mod(lastCall.chCode - START_CH_CODE, CHAR_COUNT)

\* C8 (amended): for every integer character code >= -63 the glyph index
\* is (code - 32) modulo 95, a value in 0..94: codes 32..126 map to
\* code - 32, code 31 selects glyph 94 as code 126 does, code 127 selects
\* glyph 0 as code 32 does.
C8_GlyphIndexFromMinus63 ==
    (lastCall.op = "renderChar" /\ ~lastCall.warned
        /\ lastCall.chCode >= START_CH_CODE - CHAR_COUNT) =>
        /\ lastCall.charIndex \in 0 .. (CHAR_COUNT - 1)
        /\ lastCall.charIndex = Mod(lastCall.chCode - START_CH_CODE, CHAR_COUNT)
        /\ (lastCall.chCode \in START_CH_CODE .. END_CH_CODE =>
               lastCall.charIndex = lastCall.chCode - START_CH_CODE)
        /\ (lastCall.chCode = START_CH_CODE - 1 => lastCall.charIndex = END_CH_CODE - START_CH_CODE)
        /\ (lastCall.chCode = END_CH_CODE + 1 => lastCall.charIndex = 0)

\* an accepted renderChar of code 31, which wraps to the glyph of '~'
C8_Witness ==
    /\ lastCall.op = "renderChar"
    /\ ~lastCall.warned
    /\ lastCall.chCode = START_CH_CODE - 1
    /\ lastCall.charIndex = CHAR_COUNT - 1

\* the atlas renderChar sampled in the last call
UsedAtlas == IF lastCall.useLighterFont THEN renderer.charDataLight ELSE renderer.charDataNormal

\* v is the integer nearest to background + (foreground - background) * s / 255
IsBlend(v, foreground, background, s) ==
    LET exact255 == 255 * background + (foreground - background) * s
    IN  /\ v \in 0 .. 255
        /\ 2 * (255 * v - exact255) \in (0 - 255) .. 255

\* C9: for every accepted renderChar call and every pixel of the cell, the
\* atlas holds a sample s at glyphIndex * cellWidth * cellHeight + the
\* row-major position, and each of R, G, B written is the blend of the
\* background and the foreground by s / 255; s = 0 gives the background
\* and s = 255 the foreground exactly.
C9_PixelsAreLinearBlend ==
    (lastCall.op = "renderChar" /\ ~lastCall.warned) =>
        \A x \in 0 .. (CellWidth - 1), y \in 0 .. (CellHeight - 1) :
            LET px == lastCall.dx + x
                py == lastCall.dy + y
                k == (py * target.width + px) * RGBA_CHANNELS_CNT
                offset == Mod(lastCall.chCode - START_CH_CODE, CHAR_COUNT)
                              * CellWidth * CellHeight + y * CellWidth + x
                fg == lastCall.color
                bg == lastCall.backgroundColor
            IN  (px \in 0 .. (target.width - 1) /\ py \in 0 .. (target.height - 1)) =>
                    /\ offset + 1 \in 1 .. Len(UsedAtlas)
                    /\ LET s == UsedAtlas[offset + 1]
                       IN  /\ IsBlend(target.data[k + 1], fg.r, bg.r, s)
                           /\ IsBlend(target.data[k + 2], fg.g, bg.g, s)
                           /\ IsBlend(target.data[k + 3], fg.b, bg.b, s)
                           /\ (s = 0 => /\ target.data[k + 1] = bg.r
                                        /\ target.data[k + 2] = bg.g
                                        /\ target.data[k + 3] = bg.b)
                           /\ (s = 255 => /\ target.data[k + 1] = fg.r
                                          /\ target.data[k + 2] = fg.g
                                          /\ target.data[k + 3] = fg.b)

\* every alpha byte and every byte of a pixel outside the cell rectangle
\* kept its value, and the buffer kept its size
OnlyCellRGBWritten ==
    /\ target.width = lastCall.before.width
    /\ target.height = lastCall.before.height
    /\ Len(target.data) = Len(lastCall.before.data)
    /\ \A k \in 0 .. (Len(target.data) - 1) :
          (IsAlpha(k) \/ ~InCell(k)) => target.data[k + 1] = lastCall.before.data[k + 1]

\* C10 (as stated): for all integer dx, dy, a render call that passes the
\* bounds check writes only the R, G, B bytes of the pixels of its cell
\* rectangle.
C10_WritesOnlyCellForAllDxDy ==
    Accepted => OnlyCellRGBWritten

\* C10 (amended): for all integer dy and all integer dx >= 0, a render call
\* that passes the bounds check writes only the R, G, B bytes of the pixels
\* of its cell rectangle [dx, dx + cellWidth) x [dy, dy + cellHeight):
\* every alpha byte and every byte of a pixel outside the rectangle keeps
\* its value and no index outside the buffer is written.
C10_WritesOnlyCellForDxNotNegative ==
    (Accepted /\ lastCall.dx >= 0) => OnlyCellRGBWritten

\* an accepted call inside the buffer that changed the target
C10_Witness ==
    /\ Accepted
    /\ lastCall.dx >= 0
    /\ lastCall.dy >= 0
    /\ target.data # lastCall.before.data

====
